---- MODULE Spec2Model ----
(***************************************************************************)
(* Model of the two utility scripts of the repository:                     *)
(*   - server/scripts/map_deploy.py   (run_deploy)                         *)
(*   - validate_combat_systems.py     (main and its three check helpers)   *)
(* Text is modelled as sequences of one-character strings, so that         *)
(* strip/split/int/endswith/replace are computed as Python computes them.  *)
(***************************************************************************)
EXTENDS Integers, Sequences, FiniteSets, TLC

VARIABLES
    \* ---- map_deploy.py ----
    dir,            \* os.listdir(MAPS_DIR) with each entry's file: <<[name, readable, rows]>>
    idx,            \* number of directory entries the for-loop has consumed
    all_templates,  \* the list built by run_deploy
    dpc,            \* position of run_deploy: "scan", "report", "done", "raised"
    calls,          \* every command line handed to subprocess.run, in order
    result,         \* the CompletedProcess of the last subprocess.run
    out,            \* what run_deploy printed, in order
    \* ---- validate_combat_systems.py ----
    fs,             \* state of the two files that are read more than once
    vpc,            \* position of main: the category being checked, "summary", "exit"
    vix,            \* entries of the current category already checked
    passed,         \* the six *_passed counters
    last,           \* the check evaluated by the latest step and its outcome
    nchecked,       \* number of checklist entries evaluated so far
    exitcode        \* argument of exit(), -1 while main is running

dvars == <<dir, idx, all_templates, dpc, calls, result, out>>
vvars == <<fs, vpc, vix, passed, last, nchecked, exitcode>>
vars  == <<dir, idx, all_templates, dpc, calls, result, out,
           fs, vpc, vix, passed, last, nchecked, exitcode>>

----------------------------------------------------------------------------
(* Bounds of the model *)

\* Largest total number of text lines over all files of the maps directory.
MaxTotalLines == 2

----------------------------------------------------------------------------
(* Python string operations, on sequences of characters *)

Whitespace == {" ", "\n"}

RECURSIVE LStrip(_)
LStrip(s) == IF s # <<>> /\ Head(s) \in Whitespace THEN LStrip(Tail(s)) ELSE s

RECURSIVE RStrip(_)
RStrip(s) ==
    IF s # <<>> /\ s[Len(s)] \in Whitespace
    THEN RStrip(SubSeq(s, 1, Len(s) - 1))
    ELSE s

\* str.strip()
Strip(s) == RStrip(LStrip(s))

RECURSIVE SplitAcc(_, _, _)
SplitAcc(s, sep, cur) ==
    IF s = <<>> THEN <<cur>>
    ELSE IF Head(s) = sep THEN <<cur>> \o SplitAcc(Tail(s), sep, <<>>)
    ELSE SplitAcc(Tail(s), sep, Append(cur, Head(s)))

\* str.split(sep) for a one-character separator
Split(s, sep) == SplitAcc(s, sep, <<>>)

\* str.endswith(suffix)
EndsWith(s, suffix) ==
    /\ Len(s) >= Len(suffix)
    /\ SubSeq(s, Len(s) - Len(suffix) + 1, Len(s)) = suffix

StartsWith(s, prefix) ==
    /\ Len(s) >= Len(prefix)
    /\ SubSeq(s, 1, Len(prefix)) = prefix

RECURSIVE Replace(_, _, _)
\* str.replace(old, new): every non-overlapping occurrence, left to right
Replace(s, old, new) ==
    IF s = <<>> THEN <<>>
    ELSE IF StartsWith(s, old)
         THEN new \o Replace(SubSeq(s, Len(old) + 1, Len(s)), old, new)
         ELSE <<Head(s)>> \o Replace(Tail(s), old, new)

Digits == <<"0", "1", "2", "3", "4", "5", "6", "7", "8", "9">>

IsDigit(c) == \E d \in 1..10 : Digits[d] = c

DigitVal(c) == (CHOOSE d \in 1..10 : Digits[d] = c) - 1

RECURSIVE DecimalVal(_, _)
DecimalVal(s, acc) ==
    IF s = <<>> THEN acc ELSE DecimalVal(Tail(s), 10 * acc + DigitVal(Head(s)))

Unsigned(t) == IF t # <<>> /\ Head(t) \in {"-", "+"} THEN Tail(t) ELSE t

\* whether int(t) returns (TRUE) or raises ValueError (FALSE)
IntOk(t) ==
    LET u == Unsigned(Strip(t))
    IN  u # <<>> /\ \A i \in 1..Len(u) : IsDigit(u[i])

\* int(t), for a t that int accepts
IntOf(t) ==
    LET s == Strip(t)
        v == DecimalVal(Unsigned(s), 0)
    IN  IF s # <<>> /\ Head(s) = "-" THEN 0 - v ELSE v

----------------------------------------------------------------------------
(* The maps directory: the input of run_deploy *)

SERVER_URL == "http://localhost:7734"
DB_IDENTITY == "guildmaster"

DotCsv == <<".", "c", "s", "v">>

\* a.csv, b.csv, and an editor backup c.csv~ that holds ".csv" but does not end in it
FileNames ==
    { <<"a">> \o DotCsv, <<"b">> \o DotCsv, <<"c">> \o DotCsv \o <<"~">> }

\* A cell of a CSV row: its text, and the integer it denotes when it is one.
IntCell(text, val) == [kind |-> "int", text |-> text, val |-> val]
EmptyCell == [kind |-> "empty", text |-> <<>>, val |-> 0]
SpaceCell == [kind |-> "empty", text |-> <<" ">>, val |-> 0]
WordCell  == [kind |-> "word", text |-> <<"x">>, val |-> 0]

\* The rows a file is made of, each named by the text it stands for.
Rows == {"1,2", "30, 4", "-5", "7,", "x", " "}

Cells(row) ==
    CASE row = "1,2"   -> <<IntCell(<<"1">>, 1), IntCell(<<"2">>, 2)>>
      [] row = "30, 4" -> <<IntCell(<<"3", "0">>, 30), IntCell(<<" ", "4">>, 4)>>
      [] row = "-5"    -> <<IntCell(<<"-", "5">>, 0 - 5)>>
      [] row = "7,"    -> <<IntCell(<<"7">>, 7), EmptyCell>>
      [] row = "x"     -> <<WordCell>>
      [] row = " "     -> <<SpaceCell>>

RECURSIVE JoinComma(_)
JoinComma(cells) ==
    IF Len(cells) = 1 THEN cells[1].text
    ELSE cells[1].text \o <<",">> \o JoinComma(Tail(cells))

\* The text of one line of the file, as f.readlines() returns it.
LineText(row) == JoinComma(Cells(row)) \o <<"\n">>

\* f.readlines()
ReadLines(rows) == [i \in 1..Len(rows) |-> LineText(rows[i])]

\* The files of k lines; a file that open() refuses has no lines to read.
EntriesOf(nm, k) ==
    { [name |-> nm, readable |-> TRUE, rows |-> rs] : rs \in [1..k -> Rows] }
    \cup (IF k = 0 THEN { [name |-> nm, readable |-> FALSE, rows |-> <<>>] } ELSE {})

RECURSIVE Orders(_)
\* os.listdir returns each name once, in an order of its own
Orders(names) ==
    {<<>>} \cup UNION { { <<nm>> \o o : o \in Orders(names \ {nm}) } : nm \in names }

RECURSIVE Sum(_)
Sum(s) == IF s = <<>> THEN 0 ELSE Head(s) + Sum(Tail(s))

\* A listing's names and the number of lines of each file, MaxTotalLines at most in all.
Shapes ==
    UNION { { [order |-> o, lens |-> l] :
                l \in { x \in [1..Len(o) -> 0..MaxTotalLines] : Sum(x) <= MaxTotalLines } }
            : o \in Orders(FileNames) }

RECURSIVE Listings(_, _)
\* The directories of one shape.
Listings(order, lens) ==
    IF order = <<>> THEN {<<>>}
    ELSE LET rests == Listings(Tail(order), Tail(lens))
         IN  { <<e>> \o rest : e \in EntriesOf(Head(order), Head(lens)), rest \in rests }

----------------------------------------------------------------------------
(* run_deploy, map_deploy.py:10-58 *)

\* "if l" in place of "if l.strip()"
IsBlank_NoStrip(l) == l = <<>>

IsBlank(l) == Strip(l) = <<>>

NotBlank(l) == ~IsBlank(l)

\* lines = [l.strip() for l in f.readlines() if l.strip()]
StrippedLines(raw) ==
    LET kept == SelectSeq(raw, NotBlank)
    IN  [i \in 1..Len(kept) |-> Strip(kept[i])]

\* [t.strip() for t in line.split(',') if t.strip()]
Tokens(line) ==
    LET kept == SelectSeq(Split(line, ","), NotBlank)
    IN  [i \in 1..Len(kept) |-> Strip(kept[i])]

\* whether some int(t.strip()) of the file raises ValueError
ParseRaises(lines) ==
    \E i \in 1..Len(lines) :
        \E j \in 1..Len(Tokens(lines[i])) : ~IntOk(Tokens(lines[i])[j])

RowTiles(line) ==
    LET toks == Tokens(line)
    IN  [j \in 1..Len(toks) |-> IntOf(toks[j])]

RECURSIVE TileData_RowsPrepended(_)
\* each line's integers put in front of the list instead of behind it
TileData_RowsPrepended(lines) ==
    IF lines = <<>> THEN <<>>
    ELSE TileData_RowsPrepended(Tail(lines)) \o RowTiles(Head(lines))

RECURSIVE TileData(_)
\* tile_data after the loop over lines: each line's integers appended in turn
TileData(lines) ==
    IF lines = <<>> THEN <<>> ELSE RowTiles(Head(lines)) \o TileData(Tail(lines))

TemplateWidth(lines) == Len(Split(lines[1], ","))

TemplateHeight(lines) == Len(lines)

TemplateName(filename) == Replace(filename, DotCsv, <<>>)

\* '".csv" in filename' in place of filename.endswith(".csv")
IsCsvName_Contains(filename) ==
    \E i \in 1..Len(filename) : StartsWith(SubSeq(filename, i, Len(filename)), DotCsv)

IsCsvName(filename) == EndsWith(filename, DotCsv)

MakeTemplate(filename, lines) ==
    [name      |-> TemplateName(filename),
     width     |-> TemplateWidth(lines),
     height    |-> TemplateHeight(lines),
     tile_data |-> TileData(lines)]

Entry == dir[idx + 1]

InLoop == dpc = "scan" /\ idx < Len(dir)

\* line 15: the name does not end in ".csv"
SkipEntry ==
    /\ InLoop
    /\ ~IsCsvName(Entry.name)
    /\ idx' = idx + 1
    /\ UNCHANGED <<dir, all_templates, dpc, calls, result, out>>
    /\ UNCHANGED vvars

\* line 19: open() fails; nothing catches the exception
OpenRaises ==
    /\ InLoop
    /\ IsCsvName(Entry.name)
    /\ ~Entry.readable
    /\ dpc' = "raised"
    /\ UNCHANGED <<dir, idx, all_templates, calls, result, out>>
    /\ UNCHANGED vvars

\* line 21: if not lines: continue
BlankFile ==
    /\ InLoop
    /\ IsCsvName(Entry.name)
    /\ Entry.readable
    /\ StrippedLines(ReadLines(Entry.rows)) = <<>>
    /\ idx' = idx + 1
    /\ UNCHANGED <<dir, all_templates, dpc, calls, result, out>>
    /\ UNCHANGED vvars

\* the ValueError caught and the file skipped
ParseError_Skipped ==
    /\ dpc = "scan" /\ idx < Len(dir)
    /\ IsCsvName(dir[idx + 1].name)
    /\ dir[idx + 1].readable
    /\ LET lines == StrippedLines(ReadLines(dir[idx + 1].rows))
       IN  lines # <<>> /\ ParseRaises(lines)
    /\ idx' = idx + 1
    /\ UNCHANGED <<dir, all_templates, dpc, calls, result, out>>
    /\ UNCHANGED vvars

\* line 29: int() raises ValueError; nothing catches the exception
ParseError ==
    /\ InLoop
    /\ IsCsvName(Entry.name)
    /\ Entry.readable
    /\ LET lines == StrippedLines(ReadLines(Entry.rows))
       IN  lines # <<>> /\ ParseRaises(lines)
    /\ dpc' = "raised"
    /\ UNCHANGED <<dir, idx, all_templates, calls, result, out>>
    /\ UNCHANGED vvars

\* lines 23-36
AppendTemplate ==
    /\ InLoop
    /\ IsCsvName(Entry.name)
    /\ Entry.readable
    /\ LET lines == StrippedLines(ReadLines(Entry.rows))
       IN  /\ lines # <<>>
           /\ ~ParseRaises(lines)
           /\ all_templates' = Append(all_templates, MakeTemplate(Entry.name, lines))
    /\ idx' = idx + 1
    /\ UNCHANGED <<dir, dpc, calls, result, out>>
    /\ UNCHANGED vvars

LoopDone == dpc = "scan" /\ idx = Len(dir)

\* lines 38-40
NoMaps ==
    /\ LoopDone
    /\ all_templates = <<>>
    /\ out' = Append(out, [msg |-> "warning"])
    /\ dpc' = "done"
    /\ UNCHANGED <<dir, idx, all_templates, calls, result>>
    /\ UNCHANGED vvars

ReturnCodes == {0, 1}
StderrTexts == {"", "error: connection refused"}

\* args = [all_templates]; cmd = [..., json.dumps(args)]
Command(templates) ==
    <<"spacetime", "call", "-s", SERVER_URL, DB_IDENTITY,
      "replace_all_templates", <<templates>> >>

\* lines 43-53: the blocking subprocess.run, with whatever the client answers
CallClient ==
    /\ LoopDone
    /\ all_templates # <<>>
    /\ out' = Append(out, [msg |-> "sending", count |-> Len(all_templates)])
    /\ calls' = Append(calls, Command(all_templates))
    /\ \E rc \in ReturnCodes, err \in StderrTexts :
          result' = [returncode |-> rc, stderr |-> err]
    /\ dpc' = "report"
    /\ UNCHANGED <<dir, idx, all_templates>>
    /\ UNCHANGED vvars

\* a failed call sent back to be made again
Report_Retry ==
    /\ dpc = "report"
    /\ out' = Append(out, IF result.returncode = 0
                          THEN [msg |-> "success"]
                          ELSE [msg |-> "failure", text |-> result.stderr])
    /\ dpc' = IF result.returncode = 0 THEN "done" ELSE "scan"
    /\ UNCHANGED <<dir, idx, all_templates, calls, result>>
    /\ UNCHANGED vvars

\* lines 55-58
Report ==
    /\ dpc = "report"
    /\ out' = Append(out, IF result.returncode = 0
                          THEN [msg |-> "success"]
                          ELSE [msg |-> "failure", text |-> result.stderr])
    /\ dpc' = "done"
    /\ UNCHANGED <<dir, idx, all_templates, calls, result>>
    /\ UNCHANGED vvars

NoResult == [returncode |-> -1, stderr |-> ""]

DeployInit ==
    /\ \E shape \in Shapes : dir \in Listings(shape.order, shape.lens)
    /\ idx = 0
    /\ all_templates = <<>>
    /\ dpc = "scan"
    /\ calls = <<>>
    /\ result = NoResult
    /\ out = <<>>
    \* validate_combat_systems.py is not running
    /\ fs = [p \in {"Scripts/Core/CombatSystem.cs", "Scripts/Core/ProjectileManager.cs"}
               |-> "readable"]
    /\ vpc = "core"
    /\ vix = 0
    /\ passed = [c \in {"core", "test", "data", "network", "combat", "projectile"} |-> 0]
    /\ last = [cat |-> "none"]
    /\ nchecked = 0
    /\ exitcode = -1

DeployNext ==
    \/ SkipEntry
    \/ OpenRaises
    \/ BlankFile
    \/ ParseError
    \/ AppendTemplate
    \/ NoMaps
    \/ CallClient
    \/ Report

----------------------------------------------------------------------------
(* validate_combat_systems.py *)

File(path, symbol) == [path |-> path, symbol |-> symbol]

core_files ==
    << File("Scripts/Core/CombatSystem.cs", "CombatSystem"),
       File("Scripts/Core/ICombatSystem.cs", "ICombatSystem"),
       File("Scripts/Core/ProjectileManager.cs", "ProjectileManager"),
       File("Scripts/Core/InventorySystem.cs", "InventorySystem"),
       File("Scripts/Core/IInventorySystem.cs", "IInventorySystem"),
       File("Scripts/Core/MovementSystem.cs", "MovementSystem"),
       File("Scripts/Core/IMovementSystem.cs", "IMovementSystem"),
       File("Scripts/Core/InputManager.cs", "InputManager"),
       File("Scripts/Core/IInputManager.cs", "IInputManager"),
       File("Scripts/Core/MapSystem.cs", "MapSystem"),
       File("Scripts/Core/IMapSystem.cs", "IMapSystem") >>

test_files ==
    << File("Scripts/Test/CombatSystemTest.cs", "CombatSystemTest"),
       File("Scripts/Test/ProjectileSystemTest.cs", "ProjectileSystemTest"),
       File("Scripts/Test/MovementSystemTest.cs", "MovementSystemTest"),
       File("Scripts/Test/InputManagerTest.cs", "InputManagerTest"),
       File("Scripts/Test/MapSystemTest.cs", "MapSystemTest") >>

data_files ==
    << File("Scripts/Data/PlayerData.cs", "PlayerData"),
       File("Scripts/Data/CombatData.cs", "WeaponData"),
       File("Scripts/Data/MapData.cs", "MapData"),
       File("Scripts/Data/EnemyData.cs", "EnemyData") >>

network_files ==
    << File("Scripts/Network/SpacetimeDBClient.cs", "SpacetimeDBClient"),
       File("Scripts/GameManager.cs", "GameManager") >>

CombatSystemPath == "Scripts/Core/CombatSystem.cs"
ProjectileManagerPath == "Scripts/Core/ProjectileManager.cs"

combat_methods ==
    << File(CombatSystemPath, "ExecuteAttack"),
       File(CombatSystemPath, "ProcessHit"),
       File(CombatSystemPath, "CreateProjectile"),
       File(CombatSystemPath, "IsPlayerAttacking"),
       File(CombatSystemPath, "GetEquippedWeapon") >>

projectile_methods ==
    << File(ProjectileManagerPath, "CreateProjectile"),
       File(ProjectileManagerPath, "GetActiveProjectiles"),
       File(ProjectileManagerPath, "GetProjectileConfig") >>

\* The categories in the order main walks them, and the list each one walks.
Categories == <<"core", "test", "data", "network", "combat", "projectile">>

Checklist(cat) ==
    CASE cat = "core"       -> core_files
      [] cat = "test"       -> test_files
      [] cat = "data"       -> data_files
      [] cat = "network"    -> network_files
      [] cat = "combat"     -> combat_methods
      [] cat = "projectile" -> projectile_methods

\* the data files loop left out
NextStage_SkipsData(cat) ==
    CASE cat = "core"       -> "test"
      [] cat = "test"       -> "network"
      [] cat = "data"       -> "network"
      [] cat = "network"    -> "combat"
      [] cat = "combat"     -> "projectile"
      [] cat = "projectile" -> "summary"

NextStage(cat) ==
    CASE cat = "core"       -> "test"
      [] cat = "test"       -> "data"
      [] cat = "data"       -> "network"
      [] cat = "network"    -> "combat"
      [] cat = "combat"     -> "projectile"
      [] cat = "projectile" -> "summary"

\* A file is absent, present but failing open()/read() (no permission, a directory,
\* undecodable bytes), or present and readable.
FileStates == {"missing", "unreadable", "readable"}

\* The files main reads in more than one check keep one state for the whole run.
ReadTwice == {CombatSystemPath, ProjectileManagerPath}

StatesOf(path) == IF path \in ReadTwice THEN {fs[path]} ELSE FileStates

\* check_file_exists: os.path.exists(filepath)
check_file_exists(state) == state # "missing"

\* check_class_definition; `declares`: one of the three declaration patterns matches
check_class_definition(state, declares) ==
    IF state = "missing" THEN FALSE
    ELSE IF state = "unreadable" THEN FALSE
    ELSE declares

\* the os.path.exists guard left out, and open() succeeding on the absent file
check_method_exists_NoExistsGuard(state, defines) ==
    IF state = "unreadable" THEN FALSE ELSE defines

\* check_method_exists; `defines`: the method pattern matches
check_method_exists(state, defines) ==
    IF state = "missing" THEN FALSE
    ELSE IF state = "unreadable" THEN FALSE
    ELSE defines

\* if check_file_exists(filepath) and check_class_definition(filepath, class_name)
FileEntryPasses(state, declares) ==
    check_file_exists(state) /\ check_class_definition(state, declares)

\* The loop variable moves on; after the last entry main goes to the next category.
Advance(cat) ==
    IF vix + 1 = Len(Checklist(cat))
    THEN vpc' = NextStage(cat) /\ vix' = 0
    ELSE vpc' = cat /\ vix' = vix + 1

\* One iteration of one of the four file loops, lines 114-134.
CheckFileEntry(cat) ==
    /\ vpc = cat
    /\ vix < Len(Checklist(cat))
    /\ LET e == Checklist(cat)[vix + 1]
       IN  \E state \in StatesOf(e.path), declares \in BOOLEAN :
              LET ok == FileEntryPasses(state, declares)
              IN  /\ passed' = [passed EXCEPT ![cat] = IF ok THEN @ + 1 ELSE @]
                  /\ last' = [cat |-> cat, path |-> e.path, symbol |-> e.symbol,
                              state |-> state,
                              exists |-> check_file_exists(state),
                              found |-> check_class_definition(state, declares),
                              counted |-> ok]
    /\ Advance(cat)
    /\ nchecked' = nchecked + 1
    /\ UNCHANGED <<fs, exitcode>>
    /\ UNCHANGED dvars

\* One iteration of one of the two method loops, lines 147-149 and 160-162.
CheckMethodEntry(cat) ==
    /\ vpc = cat
    /\ vix < Len(Checklist(cat))
    /\ LET e == Checklist(cat)[vix + 1]
       IN  \E state \in StatesOf(e.path), defines \in BOOLEAN :
              LET ok == check_method_exists(state, defines)
              IN  /\ passed' = [passed EXCEPT ![cat] = IF ok THEN @ + 1 ELSE @]
                  /\ last' = [cat |-> cat, path |-> e.path, symbol |-> e.symbol,
                              state |-> state,
                              exists |-> check_file_exists(state),
                              found |-> ok,
                              counted |-> ok]
    /\ Advance(cat)
    /\ nchecked' = nchecked + 1
    /\ UNCHANGED <<fs, exitcode>>
    /\ UNCHANGED dvars

CheckCoreFile == CheckFileEntry("core")
CheckTestFile == CheckFileEntry("test")
CheckDataFile == CheckFileEntry("data")
CheckNetworkFile == CheckFileEntry("network")
CheckCombatMethod == CheckMethodEntry("combat")
CheckProjectileMethod == CheckMethodEntry("projectile")

\* line 173
total_passed ==
    passed["core"] + passed["test"] + passed["data"] + passed["network"]
        + passed["combat"] + passed["projectile"]

\* line 174
total_checks ==
    Len(core_files) + Len(test_files) + Len(data_files) + Len(network_files)
        + Len(combat_methods) + Len(projectile_methods)

\* ">" in place of ">="
ThresholdMet_Strict == 10 * total_passed > 8 * total_checks

\* line 178: total_passed >= total_checks * 0.8.  total_checks * 0.8 is the
\* double nearest to 4/5 of total_checks (24.0 for 30), so the comparison of
\* the integer with it is the comparison in tenths.
ThresholdMet == 10 * total_passed >= 8 * total_checks

\* line 176: total_passed/total_checks*100 printed with one decimal, in tenths
PercentTenths == (2000 * total_passed + total_checks) \div (2 * total_checks)

\* lines 173-187: the verdict and exit(0 if success else 1)
Summary ==
    /\ vpc = "summary"
    /\ last' = [cat |-> "summary", passed |-> total_passed, checks |-> total_checks,
                tenths |-> PercentTenths, success |-> ThresholdMet]
    /\ exitcode' = IF ThresholdMet THEN 0 ELSE 1
    /\ vpc' = "exit"
    /\ UNCHANGED <<fs, vix, passed, nchecked>>
    /\ UNCHANGED dvars

NoCheck == [cat |-> "none"]

ValidateInit ==
    /\ fs \in [ReadTwice -> FileStates]
    /\ vpc = "core"
    /\ vix = 0
    /\ passed = [c \in {Categories[i] : i \in 1..Len(Categories)} |-> 0]
    /\ last = NoCheck
    /\ nchecked = 0
    /\ exitcode = -1
    \* map_deploy.py is not running
    /\ dir = <<>>
    /\ idx = 0
    /\ all_templates = <<>>
    /\ dpc = "scan"
    /\ calls = <<>>
    /\ result = NoResult
    /\ out = <<>>

ValidateNext ==
    \/ CheckCoreFile
    \/ CheckTestFile
    \/ CheckDataFile
    \/ CheckNetworkFile
    \/ CheckCombatMethod
    \/ CheckProjectileMethod
    \/ Summary

----------------------------------------------------------------------------
(***************************************************************************)
(* The two scripts are independent programs: one specification each,       *)
(* with the other script not started.                                      *)
(***************************************************************************)

DeploySpec == DeployInit /\ [][DeployNext]_vars

ValidateSpec == ValidateInit /\ [][ValidateNext]_vars

\* main is a straight-line program that the interpreter keeps running.
ValidateFairSpec == ValidateSpec /\ WF_vars(ValidateNext)

----------------------------------------------------------------------------
(* What the properties say about a directory, stated on the cells of its   *)
(* files and not on the text run_deploy parses.                            *)

FileCells(e) == [i \in 1..Len(e.rows) |-> Cells(e.rows[i])]

\* A line is blank when it holds no comma and nothing but white space.
RowIsBlank(cells) == Len(cells) = 1 /\ cells[1].kind = "empty"

RowHasData(cells) == ~RowIsBlank(cells)

DataRows(e) == SelectSeq(FileCells(e), RowHasData)

CsvNamed(name) ==
    /\ Len(name) >= Len(DotCsv)
    /\ \A i \in 1..Len(DotCsv) : name[Len(name) - Len(DotCsv) + i] = DotCsv[i]

BaseName(name) == [i \in 1..(Len(name) - Len(DotCsv)) |-> name[i]]

\* R data rows of exactly C integers each
Rectangular(e, R, C) ==
    /\ Len(DataRows(e)) = R
    /\ \A r \in 1..R :
          /\ Len(DataRows(e)[r]) = C
          /\ \A c \in 1..C : DataRows(e)[r][c].kind = "int"

HasWord(e) ==
    \E r \in 1..Len(DataRows(e)) :
        \E c \in 1..Len(DataRows(e)[r]) : DataRows(e)[r][c].kind = "word"

Ragged(e) ==
    \E r1, r2 \in 1..Len(DataRows(e)) : Len(DataRows(e)[r1]) # Len(DataRows(e)[r2])

\* The entry contributes a map: a .csv name and at least one non-blank line.
IsMap(e) == CsvNamed(e.name) /\ e.readable /\ DataRows(e) # <<>>

TemplatesNamed(nm) == { i \in 1..Len(all_templates) : all_templates[i].name = nm }

\* The list of templates inside the argument array of the k-th client call.
Payload(k) == calls[k][Len(calls[k])][1]

RECURSIVE MapsOf(_)
\* The entries of a listing that contribute a map, in listing order.
MapsOf(listing) ==
    IF listing = <<>> THEN <<>>
    ELSE IF IsMap(Head(listing)) THEN <<Head(listing)>> \o MapsOf(Tail(listing))
    ELSE MapsOf(Tail(listing))

----------------------------------------------------------------------------
(* C1: every .csv file already scanned that holds R >= 1 non-blank rows of *)
(* exactly C >= 1 integers has exactly one template, of height R, width C, *)
(* whose tile_data has R*C elements, the one at r*C + c being the integer  *)
(* of column c of the r-th non-blank row.                                  *)
C1_RowMajorFlattening ==
    \A k \in 1..idx :
        \A R \in 1..MaxTotalLines, C \in 1..2 :
            (CsvNamed(dir[k].name) /\ dir[k].readable /\ Rectangular(dir[k], R, C)) =>
                /\ Cardinality(TemplatesNamed(BaseName(dir[k].name))) = 1
                /\ \A i \in TemplatesNamed(BaseName(dir[k].name)) :
                      LET t == all_templates[i]
                      IN  /\ t.height = R
                          /\ t.width = C
                          /\ Len(t.tile_data) = R * C
                          /\ \A r \in 0..(R - 1), c \in 0..(C - 1) :
                                t.tile_data[r * C + c + 1] = DataRows(dir[k])[r + 1][c + 1].val

\* a scanned 2 x 2 grid of four different integers, behind a blank-free file
C1_Witness ==
    \E k \in 1..idx :
        /\ CsvNamed(dir[k].name) /\ dir[k].readable
        /\ Rectangular(dir[k], 2, 2)
        /\ dir[k].rows[1] # dir[k].rows[2]
        /\ dpc = "done"

(* C2: when the directory holds no map (it is empty, no name ends in .csv, *)
(* or every .csv file has only blank lines) the template list stays empty, *)
(* the client is never called, and the run ends having printed the warning *)
(* and nothing else.                                                       *)
NoMapInDir ==
    \A k \in 1..Len(dir) :
        CsvNamed(dir[k].name) => (dir[k].readable /\ DataRows(dir[k]) = <<>>)

C2_NoMapNoCall ==
    NoMapInDir =>
        /\ all_templates = <<>>
        /\ calls = <<>>
        /\ dpc \in {"scan", "done"}
        /\ (dpc = "done" => out = <<[msg |-> "warning"]>>)

\* the run ended on a directory whose only .csv file holds a blank line
C2_Witness ==
    /\ NoMapInDir
    /\ dpc = "done"
    /\ \E k \in 1..Len(dir) : CsvNamed(dir[k].name) /\ Len(dir[k].rows) >= 1

(* C5: the client is called at most once; after a non-zero exit code the   *)
(* run ends having printed the failure message with the client's stderr    *)
(* text and no success message; the success message is printed only after  *)
(* exit code 0.                                                            *)
Printed(m) == \E i \in 1..Len(out) : out[i] = m

C5_OneCallNoRetry ==
    /\ Len(calls) <= 1
    /\ Printed([msg |-> "success"]) => (Len(calls) = 1 /\ result.returncode = 0)
    /\ (dpc = "done" /\ calls # <<>> /\ result.returncode # 0) =>
          /\ out[Len(out)] = [msg |-> "failure", text |-> result.stderr]
          /\ ~Printed([msg |-> "success"])
    /\ (dpc = "done" /\ calls # <<>> /\ result.returncode = 0) =>
          out[Len(out)] = [msg |-> "success"]

\* the run ended after the client failed with an error text
C5_Witness ==
    /\ dpc = "done"
    /\ Len(calls) = 1
    /\ result.returncode # 0
    /\ result.stderr # ""

(* C6: every template built satisfies width * height = number of tiles.    *)
C6_DimensionsMatchTiles ==
    \A i \in 1..Len(all_templates) :
        all_templates[i].width * all_templates[i].height
            = Len(all_templates[i].tile_data)

(* C7: a malformed .csv file (a non-integer token, or rows of differing     *)
(* lengths) stops the run when it is reached: the loop never gets past it,  *)
(* no template is built for it and none is sent.                            *)
Malformed(e) == CsvNamed(e.name) /\ e.readable /\ (HasWord(e) \/ Ragged(e))

C7_MalformedRaises ==
    \A k \in 1..Len(dir) :
        Malformed(dir[k]) =>
            /\ idx < k
            /\ TemplatesNamed(BaseName(dir[k].name)) = {}
            /\ calls = <<>>

(* C9: the client is called only after every directory entry was scanned,   *)
(* once, with one argument array holding one list: one template per entry   *)
(* whose name ends in .csv and that has a non-blank line, in listing order, *)
(* named by the file name without ".csv", its height the number of          *)
(* non-blank lines and its width the number of comma-separated fields of    *)
(* the first non-blank line.                                                *)
C9_PayloadIsTheListing ==
    /\ (dpc = "scan" /\ idx < Len(dir)) => calls = <<>>
    /\ calls # <<>> =>
          /\ idx = Len(dir)
          /\ Len(calls) = 1
          /\ Len(calls[1][Len(calls[1])]) = 1
          /\ LET maps == MapsOf(dir)
                 sent == Payload(1)
             IN  /\ Len(sent) = Len(maps)
                 /\ \A i \in 1..Len(maps) :
                       /\ sent[i].name = BaseName(maps[i].name)
                       /\ sent[i].height = Len(DataRows(maps[i]))
                       /\ sent[i].width = Len(DataRows(maps[i])[1])

\* a call for a directory of two maps and one entry that is not a .csv file
C9_Witness ==
    /\ calls # <<>>
    /\ Len(Payload(1)) = 2
    /\ Len(dir) = 3
    /\ \E k \in 1..Len(dir) : ~CsvNamed(dir[k].name)

(* C10: the client never gets a partial set of maps: when a .csv file of    *)
(* the directory holds a non-integer token no call is made, and a call that *)
(* is made carries a template for every .csv file with a non-blank line.    *)
C10_AllOrNothing ==
    /\ (\E k \in 1..Len(dir) : CsvNamed(dir[k].name) /\ dir[k].readable /\ HasWord(dir[k]))
          => calls = <<>>
    /\ \A n \in 1..Len(calls) :
          \A k \in 1..Len(dir) :
              (CsvNamed(dir[k].name) /\ DataRows(dir[k]) # <<>>) =>
                  \E i \in 1..Len(Payload(n)) : Payload(n)[i].name = BaseName(dir[k].name)

\* the run stopped on a bad file after a good file had been turned into a template
C10_Witness ==
    /\ dpc = "raised"
    /\ all_templates # <<>>
    /\ HasWord(dir[idx + 1])
    /\ calls = <<>>

----------------------------------------------------------------------------
(* The validator's properties *)

CheckCats == {"core", "test", "data", "network", "combat", "projectile"}

\* The whole checklist in the order main walks it.
AllChecks ==
    core_files \o test_files \o data_files \o network_files
        \o combat_methods \o projectile_methods

SumOfCounters ==
    passed["core"] + passed["test"] + passed["data"] + passed["network"]
        + passed["combat"] + passed["projectile"]

(* C3: the exit code is 0 when passed / total >= 0.8 and 1 otherwise, with  *)
(* total = 11 + 5 + 4 + 2 + 5 + 3 = 30 and passed the sum of the six        *)
(* counters, that is 0 exactly from 24 passed checks on; the percentage     *)
(* printed is passed / total * 100 to one decimal; no exit code before.     *)
C3_ExitCodeThreshold ==
    /\ vpc # "exit" => exitcode = -1
    /\ vpc = "exit" =>
          /\ last.checks = 11 + 5 + 4 + 2 + 5 + 3
          /\ last.passed = SumOfCounters
          /\ exitcode = (IF SumOfCounters >= 24 THEN 0 ELSE 1)
          /\ (exitcode = 0) <=> (5 * last.passed >= 4 * last.checks)
          /\ 2 * (last.tenths * last.checks - 1000 * last.passed) <= last.checks
          /\ 2 * (1000 * last.passed - last.tenths * last.checks) <= last.checks

\* a run that ended with exactly 24 of the 30 checks passed
C3_Witness == vpc = "exit" /\ SumOfCounters = 24 /\ exitcode = 0

(* C4: a check of a missing file fails its existence check and its symbol   *)
(* check and is not counted; every method check against a missing file      *)
(* fails; and the scan goes on: an entry is counted exactly when its own    *)
(* file exists and holds the symbol, and main exits with all 30 evaluated.  *)
MethodCounter(path) ==
    IF path = CombatSystemPath THEN passed["combat"] ELSE passed["projectile"]

C4_MissingFileFailsChecks ==
    /\ (last.cat \in CheckCats /\ last.state = "missing") =>
          (~last.exists /\ ~last.found /\ ~last.counted)
    /\ \A path \in ReadTwice : fs[path] = "missing" => MethodCounter(path) = 0
    /\ last.cat \in CheckCats => (last.counted <=> (last.exists /\ last.found))
    /\ vpc = "exit" => nchecked = Len(AllChecks)

\* CombatSystem.cs missing, and still every other core file and every
\* projectile method counted
C4_Witness ==
    /\ vpc = "exit"
    /\ fs[CombatSystemPath] = "missing"
    /\ passed["core"] = Len(core_files) - 1
    /\ passed["projectile"] = Len(projectile_methods)

(* C8: main always reaches its verdict, having evaluated each of the 30     *)
(* checklist entries once, in the fixed order; a file that cannot be read   *)
(* is a failed check.                                                       *)
C8_RunsToCompletion ==
    /\ <>(vpc = "exit" /\ exitcode \in {0, 1} /\ nchecked = 30)
    /\ [](Len(AllChecks) = 30 /\ nchecked <= 30)
    /\ []((vpc \in {"summary", "exit"}) => nchecked = 30)
    /\ []((last.cat \in CheckCats /\ last.state = "unreadable") => ~last.counted)
    /\ [][ (vpc \in CheckCats) =>
              /\ nchecked' = nchecked + 1
              /\ last'.path = AllChecks[nchecked'].path
              /\ last'.symbol = AllChecks[nchecked'].symbol ]_vars
    /\ [][ (vpc = "summary") => (vpc' = "exit" /\ nchecked' = nchecked) ]_vars

\* the verdict reached although CombatSystem.cs could not be read
C8_Witness ==
    /\ vpc = "exit"
    /\ nchecked = 30
    /\ fs[CombatSystemPath] = "unreadable"
    /\ exitcode = 0

====
